---- MODULE Spec2Model ----
(***************************************************************************)
(* Model of examples/trading/mock-generator/simple_price_generator.py:     *)
(* the price simulator (generate_price_update), the event emitter          *)
(* (send_price_to_http_source) and the driver (main).                      *)
(*                                                                         *)
(* Numbers.  Python floats are modelled in fixed point:                    *)
(*   - a base price is an integer number of 1/10000 dollar;                *)
(*   - a rounded price (round(x, 2)) is an integer number of cents;        *)
(*   - a random factor (gauss, uniform) is an integer number of 1/1000.    *)
(* Every float multiplication rounds to the nearest unit, as IEEE          *)
(* arithmetic rounds to the nearest representable value.                   *)
(***************************************************************************)
EXTENDS Integers, Sequences, FiniteSets, TLC

VARIABLES
    stocks,             \* main: the symbol table, symbol -> base price
    phase,              \* 1: the initial pass (116-119), 2: inside the try (125-141)
    pc,                 \* main's position
    idx,                \* number of symbols the initial for loop has taken
    num_updates,        \* main: num_updates (0 before the first cycle)
    symbols_to_update,  \* main: symbols_to_update
    k,                  \* number of symbols the cycle's for loop has taken
    current_price,      \* main: current_price (0 before the first perturbation)
    price_data,         \* main: price_data (Null before the first simulation)
    call,               \* the arguments and draws of the last generate_price_update
    wire,               \* the request requests.post has issued and not yet answered
    outcome,            \* what the last requests.post returned or raised
    console,            \* the line printed last
    status,             \* "running", "stopped" (main returned), "killed" (traceback)
    clock,              \* logical wall clock, advanced by each reading
    generated,          \* history: number of observations generated so far
    posts,              \* history: the POST attempts, in order
    cycles              \* history: one record per Phase 2 cycle

vars == <<stocks, phase, pc, idx, num_updates, symbols_to_update, k,
          current_price, price_data, call, wire, outcome, console, status,
          clock, generated, posts, cycles>>

Null == [none |-> TRUE]

(***************************************************************************)
(* Bounds of the model.                                                    *)
(***************************************************************************)
\* A Phase 2 cycle starts only if its POST attempts fit in this many Phase 2
\* attempts in all.
MaxP2Posts == 8

(***************************************************************************)
(* Program constants.                                                      *)
(***************************************************************************)
http_source_url == "http://localhost:9000"
source_id == "price-feed"

\* stocks.items() iterates in insertion order.
Keys == <<"AAPL", "MSFT", "GOOGL", "TSLA", "NVDA", "META", "AMZN", "AMD",
          "INTC", "JPM", "BAC", "WFC", "GS", "V", "JNJ", "PFE",
          "UNH", "CVS", "XOM", "CVX", "DIS", "NKE", "BA", "CAT">>

SeedStocks ==
    ("AAPL" :> 1755000) @@ ("MSFT" :> 4052500) @@ ("GOOGL" :> 1407500) @@
    ("TSLA" :> 2503000) @@ ("NVDA" :> 8802500) @@ ("META" :> 4855000) @@
    ("AMZN" :> 1789000) @@ ("AMD" :> 1653000) @@ ("INTC" :> 428000) @@
    ("JPM" :> 1958000) @@ ("BAC" :> 342500) @@ ("WFC" :> 489000) @@
    ("GS" :> 4256000) @@ ("V" :> 2804500) @@ ("JNJ" :> 1552000) @@
    ("PFE" :> 287500) @@ ("UNH" :> 5253000) @@ ("CVS" :> 724500) @@
    ("XOM" :> 1058000) @@ ("CVX" :> 1456000) @@ ("DIS" :> 921500) @@
    ("NKE" :> 984000) @@ ("BA" :> 2157000) @@ ("CAT" :> 2853000)

NumStocks == Len(Keys)

\* max(base_price + change, 1.0): 1.0 dollar in 1/10000 dollar.
PriceFloor == 10000
\* random.randint(1000000, 50000000)
MinBaseVolume == 1000000
MaxBaseVolume == 50000000
\* random.randint(3, 8)
MinUpdates == 3
MaxUpdates == 8

(***************************************************************************)
(* The random draws, each a small set of values of the range the code      *)
(* draws from, its end points included.                                    *)
(***************************************************************************)
\* random.gauss(0, 0.02), in 1/1000: unbounded; -1500 drives the price below 0.
GaussDraws == {-1500, -1000, -999, -20, 0, 20, 1500}
\* random.uniform(-0.05, 0.05), in 1/1000
CloseDraws == {-50, 0, 50}
\* random.randint(1000000, 50000000)
BaseVolumeDraws == {MinBaseVolume, MinBaseVolume + 1, 25000000,
                    MaxBaseVolume - 1, MaxBaseVolume}
\* random.uniform(-0.3, 0.3), in 1/1000
ScaleDraws == {-300, -299, 0, 299, 300}
\* random.uniform(-0.001, 0.001), in 1/1000
DriftDraws == {-1, 1}
\* random.randint(3, 8)
NumUpdatesDraws == MinUpdates..MaxUpdates
\* random.sample: (position of the first pick, step to the next pick)
SampleSeeds == {<<0, 1>>, <<19, 7>>}

\* Every combination of the draws of one simulation.
SimulatorDraws ==
    [gauss : GaussDraws, close : CloseDraws,
     base_volume : BaseVolumeDraws, scale : ScaleDraws]

\* The combinations the driver is run with: all draws lowest, all draws highest.
DriverDraws ==
    {d \in SimulatorDraws :
        \/ /\ d.gauss = -1500 /\ d.close = -50
           /\ d.base_volume = MinBaseVolume /\ d.scale = -300
        \/ /\ d.gauss = 20 /\ d.close = 50
           /\ d.base_volume = MaxBaseVolume /\ d.scale = 300}

\* requests.post: a response with a status code, or a raised transport fault
\* (connection refused and DNS failure raise ConnectionError; every fault that
\* requests raises is a subclass of Exception).
StatusDraws == {200, 500}
TransportFaults == {"ConnectionError"}
PostOutcomes ==
    [kind : {"response"}, code : StatusDraws] \cup
    [kind : {"raise"}, code : TransportFaults]

(***************************************************************************)
(* Arithmetic.                                                             *)
(***************************************************************************)
Max(a, b) == IF a >= b THEN a ELSE b

\* a / b rounded to the nearest integer (b > 0).
RoundDiv(a, b) == (2 * a + b) \div (2 * b)

\* round(x, 2): 1/10000 dollar to cents, ties to even.
Round2(x) ==
    LET q == x \div 100
        r == x % 100
    IN  IF r > 50 \/ (r = 50 /\ q % 2 = 1) THEN q + 1 ELSE q

\* x * f for a factor f in 1/1000, rounded to the nearest unit. The product is
\* taken in two parts, so that no intermediate value leaves 32 bits.
Times(x, f) == (x \div 1000) * f + RoundDiv((x % 1000) * f, 1000)

\* x * (1 + f) for a factor f in 1/1000.
Scaled(x, f) == x + Times(x, f)

\* int(x * (1 + f)) for an integer x > 0 and a factor f > -1000 in 1/1000.
Truncated(x, f) == x + (x \div 1000) * f + ((x % 1000) * f) \div 1000

IsInjective(s) == \A i, j \in DOMAIN s : s[i] = s[j] => i = j

Range(s) == {s[i] : i \in DOMAIN s}

(***************************************************************************)
(* generate_price_update(symbol, base_price, volatility=0.02)              *)
(***************************************************************************)
\* Variant: the floor is left out.
NewPriceNoFloor(base_price, gauss) == base_price + Times(base_price, gauss)

\* new_price = max(base_price + change, 1.0)
NewPrice(base_price, gauss) ==
    Max(base_price + Times(base_price, gauss), PriceFloor)

\* Variant: the "1 +" of the scaling factor is left out.
VolumeFactorOnly(base_volume, scale) ==
    (base_volume \div 1000) * scale + ((base_volume % 1000) * scale) \div 1000

\* volume = int(base_volume * (1 + random.uniform(-0.3, 0.3)))
Volume(base_volume, scale) == Truncated(base_volume, scale)

generate_price_update(symbol, base_price, d, now) ==
    [symbol |-> symbol,
     price |-> Round2(NewPrice(base_price, d.gauss)),
     previous_close |-> Round2(Scaled(base_price, d.close)),
     volume |-> Volume(d.base_volume, d.scale),
     timestamp |-> <<"isoformat", now>>]

(***************************************************************************)
(* send_price_to_http_source(http_url, source_id, price_data)              *)
(***************************************************************************)
\* Variant: the element id is the bare symbol.
EventBareId(data, now) ==
    [operation |-> "update",
     element |-> [type |-> "node",
                  id |-> data.symbol,
                  labels |-> <<"stock_prices">>,
                  properties |-> data],
     timestamp |-> <<"nanoseconds", now>>]

\* The direct format event.
Event(data, now) ==
    [operation |-> "update",
     element |-> [type |-> "node",
                  id |-> "price_" \o data.symbol,
                  labels |-> <<"stock_prices">>,
                  properties |-> data],
     timestamp |-> <<"nanoseconds", now>>]

Url(http_url, source) == http_url \o "/sources/" \o source \o "/events"

\* Variant: except requests.HTTPError, which no transport fault is.
CaughtBySendHTTPErrorOnly(exc) == exc = "HTTPError"

\* except Exception: the transport faults are Exceptions, KeyboardInterrupt is not.
CaughtBySend(exc) == exc \in TransportFaults

\* The line the emitter prints for an outcome it handles.
LogLine(o, data) ==
    IF o.kind = "response"
    THEN IF o.code = 200
         THEN <<"sent", data.symbol, data.price>>
         ELSE <<"failed", data.symbol, o.code>>
    ELSE <<"error", data.symbol, o.code>>

(***************************************************************************)
(* main()                                                                  *)
(***************************************************************************)
\* except KeyboardInterrupt encloses the while loop only.
InTry == phase = 2

\* random.sample(population, n): n elements of the population, none twice.
Pick(population, n, seed) ==
    [i \in 1..n |-> population[((seed[1] + (i - 1) * seed[2]) % Len(population)) + 1]]

\* Variant: random.choices, which draws with replacement.
random_choices(population, n) ==
    {Pick(population, n, <<seed[1], 12 * seed[2]>>) : seed \in SampleSeeds}

random_sample(population, n) ==
    {s \in {Pick(population, n, seed) : seed \in SampleSeeds} : IsInjective(s)}

\* The position main continues at when send_price_to_http_source returns.
AfterSend == IF phase = 1 THEN "sleep1" ELSE "iter2"

\* Variant: the "1 +" of the drift factor is left out.
PerturbedByFactorOnly(symbol, u) ==
    [stocks EXCEPT ![symbol] = Times(stocks[symbol], u)]

\* Line 134: stocks[symbol] = current_price * (1 + random.uniform(-0.001, 0.001))
Perturbed(symbol, u) == [stocks EXCEPT ![symbol] = Scaled(stocks[symbol], u)]

\* Variant: the simulation starts from the price read before the perturbation.
SimulationBaseOld(symbol) == current_price

\* The base price the simulation of a Phase 2 update starts from (line 137).
SimulationBase(symbol) == stocks[symbol]

\* main ends: its locals are gone, the process exits.
Exit(how, line) ==
    /\ status' = how
    /\ console' = line
    /\ pc' = "exit"
    /\ idx' = 0
    /\ num_updates' = 0
    /\ symbols_to_update' = <<>>
    /\ k' = 0
    /\ current_price' = 0
    /\ price_data' = Null
    /\ call' = Null
    /\ outcome' = Null

\* Lines 125, 143-145: an exception reaches main. KeyboardInterrupt inside the
\* try block prints the final message and main returns; anything else, and
\* anything outside the try block, ends the process with a traceback.
Propagate(exc) ==
    IF InTry /\ exc = "KeyboardInterrupt"
    THEN Exit("stopped", <<"Price generator stopped">>)
    ELSE Exit("killed", <<"Traceback", exc>>)

Init ==
    /\ stocks = SeedStocks
    /\ phase = 1
    /\ pc = "iter1"
    /\ idx = 0
    /\ num_updates = 0
    /\ symbols_to_update = <<>>
    /\ k = 0
    /\ current_price = 0
    /\ price_data = Null
    /\ call = Null
    /\ wire = Null
    /\ outcome = Null
    /\ console = <<"Sending initial prices...">>
    /\ status = "running"
    /\ clock = 0
    /\ generated = 0
    /\ posts = <<>>
    /\ cycles = <<>>

\* Lines 116-117: the for loop takes the next symbol and simulates it.
P1Generate ==
    /\ status = "running" /\ pc = "iter1" /\ idx < NumStocks
    /\ LET symbol == Keys[idx + 1]
           base_price == stocks[symbol]
       IN  \E d \in DriverDraws :
              /\ call' = [symbol |-> symbol, base_price |-> base_price, draw |-> d]
              /\ price_data' = generate_price_update(symbol, base_price, d, clock + 1)
    /\ idx' = idx + 1
    /\ clock' = clock + 1
    /\ generated' = generated + 1
    /\ pc' = "post"
    /\ UNCHANGED <<stocks, phase, num_updates, symbols_to_update, k,
                   current_price, wire, outcome, console, status, posts, cycles>>

\* Lines 53-67: the envelope is built and the POST is issued.
Post ==
    /\ status = "running" /\ pc = "post"
    /\ wire' = [url |-> Url(http_source_url, source_id),
                json |-> Event(price_data, clock + 1)]
    /\ clock' = clock + 1
    /\ posts' = Append(posts, [symbol |-> price_data.symbol,
                               serial |-> generated, phase |-> phase])
    /\ pc' = "resp"
    /\ UNCHANGED <<stocks, phase, idx, num_updates, symbols_to_update, k,
                   current_price, price_data, call, outcome, console, status, generated,
                   cycles>>

\* Variant: a send that did not return 200 is tried again.
RespondRetry ==
    /\ status = "running" /\ pc = "resp"
    /\ \E o \in PostOutcomes :
          /\ outcome' = o
          /\ console' = LogLine(o, price_data)
          /\ pc' = IF o.kind = "response" /\ o.code = 200 THEN AfterSend ELSE "post"
    /\ wire' = Null
    /\ UNCHANGED <<stocks, phase, idx, num_updates, symbols_to_update, k,
                   current_price, price_data, call, status, clock, generated,
                   posts, cycles>>

\* Lines 67-73: requests.post returns or raises; one line is printed and the
\* emitter returns, unless the fault is one its except clause does not catch.
Respond ==
    /\ status = "running" /\ pc = "resp"
    /\ \E o \in PostOutcomes :
          IF o.kind = "response" \/ CaughtBySend(o.code)
          THEN /\ outcome' = o
               /\ console' = LogLine(o, price_data)
               /\ pc' = AfterSend
               /\ UNCHANGED <<status, idx, num_updates, symbols_to_update, k,
                              current_price, price_data, call>>
          ELSE Propagate(o.code)
    /\ wire' = Null
    /\ UNCHANGED <<stocks, phase, clock, generated, posts, cycles>>

\* Line 119: time.sleep(0.1).
P1Sleep ==
    /\ status = "running" /\ pc = "sleep1"
    /\ pc' = "iter1"
    /\ UNCHANGED <<stocks, phase, idx, num_updates, symbols_to_update, k,
                   current_price, price_data, call, wire, outcome, console, status, clock,
                   generated, posts, cycles>>

\* Variant: the initial loop stops one symbol short.
P1DoneEarly ==
    /\ status = "running" /\ pc = "iter1" /\ idx >= NumStocks - 1
    /\ console' = <<"Starting continuous price updates (Ctrl+C to stop)...">>
    /\ phase' = 2
    /\ pc' = "pick"
    /\ UNCHANGED <<stocks, idx, num_updates, symbols_to_update, k,
                   current_price, price_data, call, wire, outcome, status, clock,
                   generated, posts, cycles>>

\* Lines 116, 121-126: the for loop is exhausted; the try block is entered.
P1Done ==
    /\ status = "running" /\ pc = "iter1" /\ idx = NumStocks
    /\ console' = <<"Starting continuous price updates (Ctrl+C to stop)...">>
    /\ phase' = 2
    /\ pc' = "pick"
    /\ UNCHANGED <<stocks, idx, num_updates, symbols_to_update, k,
                   current_price, price_data, call, wire, outcome, status, clock,
                   generated, posts, cycles>>

\* Lines 126-129: a cycle starts.
P2Pick ==
    /\ status = "running" /\ pc = "pick"
    /\ \E n \in NumUpdatesDraws :
          \E sample \in random_sample(Keys, n) :
             /\ Len(posts) + n <= NumStocks + MaxP2Posts
             /\ num_updates' = n
             /\ symbols_to_update' = sample
             /\ cycles' = Append(cycles, [n |-> n, sample |-> sample,
                                          start |-> Len(posts), table |-> stocks,
                                          sleeps |-> 0, sleep_at |-> 0])
    /\ k' = 0
    /\ pc' = "iter2"
    /\ UNCHANGED <<stocks, phase, idx, current_price, price_data, call, wire,
                   outcome, console, status, clock, generated, posts>>

\* Lines 131-134: the for loop takes the next symbol and perturbs its base price.
P2Perturb ==
    /\ status = "running" /\ pc = "iter2" /\ k < Len(symbols_to_update)
    /\ LET symbol == symbols_to_update[k + 1] IN
          /\ current_price' = stocks[symbol]
          /\ \E u \in DriftDraws : stocks' = Perturbed(symbol, u)
    /\ k' = k + 1
    /\ pc' = "gen2"
    /\ UNCHANGED <<phase, idx, num_updates, symbols_to_update, price_data, call,
                   wire, outcome, console, status, clock, generated, posts, cycles>>

\* Line 137: the update is simulated.
P2Generate ==
    /\ status = "running" /\ pc = "gen2"
    /\ LET symbol == symbols_to_update[k]
           base_price == SimulationBase(symbol)
       IN  \E d \in DriverDraws :
              /\ call' = [symbol |-> symbol, base_price |-> base_price, draw |-> d]
              /\ price_data' = generate_price_update(symbol, base_price, d, clock + 1)
    /\ clock' = clock + 1
    /\ generated' = generated + 1
    /\ pc' = "post"
    /\ UNCHANGED <<stocks, phase, idx, num_updates, symbols_to_update, k,
                   current_price, wire, outcome, console, status, posts, cycles>>

\* Lines 131, 141: the for loop is exhausted; time.sleep(random.uniform(1, 3)).
P2Sleep ==
    /\ status = "running" /\ pc = "iter2" /\ k = Len(symbols_to_update)
    /\ cycles' = [cycles EXCEPT ![Len(cycles)] =
                     [@ EXCEPT !.sleeps = @ + 1, !.sleep_at = Len(posts)]]
    /\ pc' = "pick"
    /\ UNCHANGED <<stocks, phase, idx, num_updates, symbols_to_update, k,
                   current_price, price_data, call, wire, outcome, console, status, clock,
                   generated, posts>>

\* A KeyboardInterrupt, raised wherever main is (also inside requests.post and
\* time.sleep, whose handlers do not catch it).
Interrupt ==
    /\ status = "running"
    /\ Propagate("KeyboardInterrupt")
    /\ wire' = Null
    /\ UNCHANGED <<stocks, phase, clock, generated, posts, cycles>>

Next ==
    \/ P1Generate
    \/ Post
    \/ Respond
    \/ P1Sleep
    \/ P1Done
    \/ P2Pick
    \/ P2Perturb
    \/ P2Generate
    \/ P2Sleep
    \/ Interrupt

Spec == Init /\ [][Next]_vars

(***************************************************************************)
(* The simulator and the emitter on their own: one call of                 *)
(* generate_price_update with any base price and any draws, followed by    *)
(* one call of send_price_to_http_source with the observation.             *)
(***************************************************************************)
\* Base prices, in 1/10000 dollar: the smallest positive ones, the values around
\* the floor, the lowest and the highest seeded price.
BasePriceDraws == {1, 2, 499, 9999, 10000, 10001, 287500, 8802500}

SimInit ==
    /\ stocks = SeedStocks
    /\ phase = 1
    /\ pc = "sim"
    /\ idx = 0
    /\ num_updates = 0
    /\ symbols_to_update = <<>>
    /\ k = 0
    /\ current_price = 0
    /\ price_data = Null
    /\ call \in [symbol : {"AAPL", "CAT"}, base_price : BasePriceDraws,
                 draw : SimulatorDraws]
    /\ wire = Null
    /\ outcome = Null
    /\ console = <<>>
    /\ status = "running"
    /\ clock = 0
    /\ generated = 0
    /\ posts = <<>>
    /\ cycles = <<>>

SimGenerate ==
    /\ status = "running" /\ pc = "sim"
    /\ price_data' = generate_price_update(call.symbol, call.base_price,
                                           call.draw, clock + 1)
    /\ clock' = clock + 1
    /\ generated' = generated + 1
    /\ pc' = "post"
    /\ UNCHANGED <<stocks, phase, idx, num_updates, symbols_to_update, k,
                   current_price, call, wire, outcome, console, status, posts, cycles>>

SimNext ==
    \/ SimGenerate
    \/ Post
    \/ Respond

SimSpec == SimInit /\ [][SimNext]_vars

(***************************************************************************)
(* The claims.                                                             *)
(***************************************************************************)
Abs(x) == IF x >= 0 THEN x ELSE -x

\* new = old * (1 + u) for some u in [-0.001, 0.001], to the nearest unit.
WithinDrift(old, new) == Abs(new - old) <= (old + 999) \div 1000

\* The lines main prints, or Python prints for it, when an interrupt ends it.
InterruptLines == {<<"Price generator stopped">>, <<"Traceback", "KeyboardInterrupt">>}

InCycle == status = "running" /\ pc \in {"iter2", "gen2", "post", "resp"}

\* C1: the first 24 POST attempts are those of Phase 1, one per seeded symbol in
\* table order from AAPL to CAT, whatever their outcomes; Phase 2 is entered,
\* and a Phase 2 POST issued, only after all 24 have been issued and have
\* returned.
C1_Phase1Order ==
    /\ NumStocks = 24 /\ Keys[1] = "AAPL" /\ Keys[24] = "CAT"
    /\ \A i \in 1..Len(posts) :
          IF i <= 24
          THEN posts[i].phase = 1 /\ posts[i].symbol = Keys[i]
          ELSE posts[i].phase = 2
    /\ phase = 1 => Len(posts) <= 24
    /\ phase = 2 => Len(posts) >= 24
    /\ (phase = 1 /\ status = "running") =>
          Len(posts) = IF pc = "post" THEN idx - 1 ELSE idx

\* The 25th POST, the first of Phase 2, has been issued and has failed.
C1_Witness ==
    /\ phase = 2 /\ status = "running" /\ pc = "iter2"
    /\ Len(posts) = 25 /\ posts[25].phase = 2 /\ posts[24].symbol = "CAT"
    /\ outcome.kind = "raise"

\* C2: whenever main has ended, it has ended gracefully: the interrupt was caught
\* and the last line printed is the shutdown message.
C2_AlwaysGraceful ==
    status # "running" =>
        status = "stopped" /\ console = <<"Price generator stopped">>

\* C3: a step that ends a POST either is the interrupt, or prints the one line
\* of the outcome (success, status, fault) and leaves main running at the
\* position that follows a successful send, with nothing else changed.
C3_Step ==
    (status = "running" /\ pc = "resp") =>
        \/ status' # "running" /\ console' \in InterruptLines
        \/ /\ status' = "running"
           /\ pc' = (IF phase = 1 THEN "sleep1" ELSE "iter2")
           /\ outcome' \in PostOutcomes
           /\ console' = IF outcome'.kind = "raise"
                            THEN <<"error", price_data.symbol, outcome'.code>>
                         ELSE IF outcome'.code = 200
                            THEN <<"sent", price_data.symbol, price_data.price>>
                         ELSE <<"failed", price_data.symbol, outcome'.code>>
           /\ UNCHANGED <<stocks, phase, idx, num_updates, symbols_to_update, k,
                          current_price, price_data, generated, posts, cycles>>

C3_FailureNotFatal == [][C3_Step]_vars

\* After a transport fault in Phase 2 the next symbol of the cycle has been
\* perturbed, simulated and is about to be posted.
C3_Witness ==
    /\ status = "running" /\ phase = 2 /\ pc = "post" /\ k >= 2
    /\ outcome.kind = "raise" /\ console[1] = "error"

\* C4 as stated: no observation is posted twice, and whenever no observation is
\* waiting for its POST (main has ended included) there are as many POST
\* attempts as observations generated.
C4_Original ==
    /\ \A i \in 1..Len(posts) : posts[i].serial = i
    /\ pc # "post" => Len(posts) = generated

\* C4, amended: the i-th POST attempt carries the i-th observation generated, so
\* none is posted twice or retried; while main runs and no observation waits for
\* its POST there are as many attempts as observations; the observation an
\* interrupt finds waiting is never posted, so at most one is left over.
C4_NoRetry ==
    /\ \A i \in 1..Len(posts) : posts[i].serial = i
    /\ Len(posts) <= generated /\ generated <= Len(posts) + 1
    /\ (status = "running" /\ pc # "post") => Len(posts) = generated
    /\ generated = Len(posts) + 1 =>
          \/ status = "running" /\ pc = "post"
          \/ status # "running" /\ console \in InterruptLines

\* A Phase 2 send has failed with a status other than 200 and main has gone on:
\* the attempts still match the observations.
C4_Witness ==
    /\ status = "running" /\ phase = 2 /\ pc = "iter2" /\ k >= 1
    /\ outcome.kind = "response" /\ outcome.code # 200
    /\ Len(posts) = generated /\ generated > NumStocks

\* C5: the price of every observation is at least 1.00 (100 cents).
C5_PriceFloor == price_data # Null => price_data.price >= 100

\* The perturbation has driven the price below zero and the floor has acted.
C5_Witness ==
    /\ price_data # Null /\ call # Null
    /\ call.base_price + Times(call.base_price, call.draw.gauss) < 0
    /\ price_data.price = 100

\* C6: the volume of every observation is a positive integer in
\* [700000, 65000000].
C6_VolumeRange ==
    price_data # Null =>
        /\ price_data.volume \in Nat
        /\ price_data.volume > 0
        /\ price_data.volume >= 700000
        /\ price_data.volume <= 65000000

\* The lowest base volume scaled by the lowest factor.
C6_Witness ==
    /\ price_data # Null /\ call # Null
    /\ call.draw.base_volume = 1000000 /\ call.draw.scale = -300
    /\ price_data.volume = 700000

\* C7: every request in flight goes to <url>/sources/<source_id>/events and
\* carries operation "update", a node element with id "price_" + symbol, labels
\* ["stock_prices"] and the observation in hand, unchanged, as properties.
C7_Envelope ==
    wire # Null =>
        /\ wire.url = "http://localhost:9000/sources/price-feed/events"
        /\ wire.json.operation = "update"
        /\ wire.json.element.type = "node"
        /\ wire.json.element.id = "price_" \o price_data.symbol
        /\ wire.json.element.labels = <<"stock_prices">>
        /\ wire.json.element.properties = price_data
        /\ DOMAIN wire.json.element = {"type", "id", "labels", "properties"}

C7_Witness ==
    /\ wire # Null /\ pc = "resp"
    /\ price_data.symbol = "CAT"
    /\ wire.json.element.id = "price_CAT"

\* C8: every cycle has a count n in 3..8 and a sample of n pairwise distinct
\* keys of the table; its POST attempts are those of the sample, in order, none
\* twice, n of them once the cycle is over; the sleep happens once, after the
\* n-th attempt and before the first attempt of the next cycle.
C8_Cycles ==
    \A c \in 1..Len(cycles) :
        LET cy == cycles[c]
            last == c = Len(cycles)
            stop == IF last THEN Len(posts) ELSE cycles[c + 1].start
            sent == stop - cy.start
        IN  /\ cy.n >= 3 /\ cy.n <= 8
            /\ Len(cy.sample) = cy.n
            /\ \A i, j \in 1..cy.n : i # j => cy.sample[i] # cy.sample[j]
            /\ \A i \in 1..cy.n : cy.sample[i] \in DOMAIN stocks
            /\ sent >= 0 /\ sent <= cy.n
            /\ \A i \in 1..sent :
                  /\ posts[cy.start + i].symbol = cy.sample[i]
                  /\ posts[cy.start + i].phase = 2
            /\ cy.sleeps \in {0, 1}
            /\ cy.sleeps = 1 => (sent = cy.n /\ cy.sleep_at = cy.start + cy.n)
            /\ ~last => cy.sleeps = 1
            /\ (last /\ InCycle) =>
                  /\ cy.sleeps = 0
                  /\ symbols_to_update = cy.sample /\ num_updates = cy.n
                  /\ sent = IF pc \in {"gen2", "post"} THEN k - 1 ELSE k
            /\ (last /\ status = "running" /\ pc = "pick") => cy.sleeps = 1

\* A cycle of 5 and then a cycle of 3 are over, each followed by its sleep.
C8_Witness ==
    /\ status = "running" /\ pc = "pick" /\ Len(cycles) = 2
    /\ cycles[1].n = 5 /\ cycles[1].sleeps = 1
    /\ cycles[2].n = 3 /\ cycles[2].sleeps = 1
    /\ Len(posts) = NumStocks + 8

\* C9: in a cycle the stored base price changes only as the first step for a
\* symbol, to old * (1 + u); the simulation follows, from the stored price as
\* updated; the POST follows the simulation; and neither the simulation, the
\* POST nor its outcome changes the table.
C9_State ==
    (InCycle /\ k >= 1) =>
        LET symbol == symbols_to_update[k] IN
        /\ WithinDrift(current_price, stocks[symbol])
        /\ pc \in {"post", "resp"} =>
              /\ call.symbol = symbol
              /\ call.base_price = stocks[symbol]
              /\ price_data = generate_price_update(symbol, stocks[symbol],
                                  call.draw, price_data.timestamp[2])
        /\ pc = "resp" => wire.json.element.properties = price_data

C9_Step ==
    /\ stocks' # stocks =>
          /\ pc = "iter2" /\ pc' = "gen2"
          /\ current_price' = stocks[symbols_to_update'[k']]
    /\ (phase = 2 /\ generated' # generated) =>
          pc = "gen2" /\ pc' = "post" /\ stocks' = stocks
    /\ (phase = 2 /\ posts' # posts) =>
          pc = "post" /\ pc' = "resp" /\ stocks' = stocks
    /\ pc \in {"gen2", "post", "resp"} => stocks' = stocks

C9_PerturbSimulateEmit == []C9_State /\ [][C9_Step]_vars

\* A Phase 2 send has failed; the symbol's stored price is the perturbed one,
\* not the one read before and not the simulated price.
C9_Witness ==
    /\ status = "running" /\ phase = 2 /\ pc = "iter2" /\ k >= 1
    /\ outcome.kind = "raise"
    /\ stocks[symbols_to_update[k]] # current_price
    /\ stocks[symbols_to_update[k]] # price_data.price * 100

\* C10: the table always has the 24 seeded keys and positive prices; it is the
\* seeded table throughout Phase 1; a step changes it only by perturbing the
\* symbol a cycle takes next, by a factor within [0.999, 1.001]; within a cycle
\* every symbol taken so far differs from its value at the start of the cycle by
\* such a factor and every other entry is as it was.
C10_State ==
    /\ DOMAIN stocks = Range(Keys) /\ Cardinality(DOMAIN stocks) = 24
    /\ \A s \in DOMAIN stocks : stocks[s] > 0
    /\ phase = 1 => stocks = SeedStocks
    /\ (status = "running" /\ phase = 2 /\ cycles # <<>>) =>
          LET cy == cycles[Len(cycles)]
              taken == {cy.sample[i] : i \in 1..k}
          IN  \A s \in DOMAIN stocks :
                 IF s \in taken
                 THEN WithinDrift(cy.table[s], stocks[s])
                 ELSE stocks[s] = cy.table[s]

C10_Step ==
    stocks' # stocks =>
        /\ phase = 2 /\ pc = "iter2" /\ pc' = "gen2" /\ k' = k + 1
        /\ \A s \in DOMAIN stocks :
              IF s = symbols_to_update[k']
              THEN WithinDrift(stocks[s], stocks'[s])
              ELSE stocks'[s] = stocks[s]

C10_TableFrame == []C10_State /\ [][C10_Step]_vars

\* A cycle of 8 is over: 8 entries have drifted, 16 are as seeded.
C10_Witness ==
    /\ status = "running" /\ pc = "pick" /\ Len(cycles) = 1 /\ cycles[1].n = 8
    /\ Cardinality({s \in DOMAIN stocks : stocks[s] # SeedStocks[s]}) = 8
    /\ Cardinality({s \in DOMAIN stocks : stocks[s] = SeedStocks[s]}) = 16

====
